---- MODULE Spec2Model ----
(***************************************************************************)
(* State-machine model of MockGeolocateControl                              *)
(* (src/src/MockGeolocateControl.ts): the OFF / WAITING_ACTIVE /            *)
(* ACTIVE_LOCK lifecycle, the delayed activation timer, the two markers,    *)
(* the viewport listeners and the event subsystem, together with the parts  *)
(* of the host (timer queue, map surface) the control reads and mutates.    *)
(*                                                                          *)
(* The operations of the class are operators over a record s holding the    *)
(* whole state, so that a handler invoked by _fire can call trigger() on    *)
(* the same instance (re-entrancy).  Each action of Next applies one        *)
(* operation to the current state.                                          *)
(***************************************************************************)
EXTENDS Integers, Sequences, FiniteSets, TLC

(***************************************************************************)
(* Bounds of the model                                                      *)
(***************************************************************************)
\* at most this many delayed activations pending in the host's timer queue
MaxPending == 2
\* at most this many handlers registered in the handler table (both events)
MaxHandlers == 2
\* at most this many handlers registered where every call is recorded by name
MaxListeners == 1
\* at most this many handlers registered where the handler table is studied
MaxRegistrations == 3

(***************************************************************************)
(* Input domains                                                            *)
(***************************************************************************)
\* longitude 1 lies inside Box, longitude 0 west of it
Positions == [lng : {0, 1}, lat : {1}]
\* the shapes a coordinate argument comes in: the LngLatLike shapes of the map
\* library, and two that are not coordinates
ValidShapes == {"LngLat", "array2", "array3", "lngLat", "lonLat"}
InvalidShapes == {"string", "null"}
\* the value of the given shape that denotes the point p.  shape, lng and
\* lat name what the application means; what the value is made of, and all a
\* conversion can look at, is whether it is a LngLat instance, an array or
\* another non-null object, and its entries: index or property name, number
LngLatLike(shape, p) ==
  [shape |-> shape, lng |-> p.lng, lat |-> p.lat,
   isLngLat |-> shape = "LngLat",
   isArray |-> shape \in {"array2", "array3"},
   isObject |-> shape \in {"LngLat", "lngLat", "lonLat"},
   entries |->
     CASE shape \in {"LngLat", "lngLat"} ->
            {<<"lng", p.lng>>, <<"lat", p.lat>>}
       [] shape = "lonLat" -> {<<"lon", p.lng>>, <<"lat", p.lat>>}
       [] shape = "array2" -> {<<"0", p.lng>>, <<"1", p.lat>>}
       [] shape = "array3" -> {<<"0", p.lng>>, <<"1", p.lat>>, <<"2", 0>>}
       [] OTHER -> {}]
\* what an application may pass as a coordinate: every position in every
\* valid shape, the shapes that are no coordinate, and a latitude off range
CoordinateInputs ==
  {LngLatLike(sh, p) : sh \in ValidShapes, p \in Positions}
    \cup {LngLatLike(sh, [lng |-> 0, lat |-> 0]) : sh \in InvalidShapes}
    \cup {LngLatLike("lngLat", [lng |-> 1, lat |-> 91])}
\* constructor default for options.accuracy
DefaultAccuracy == 50
Accuracies == {DefaultAccuracy, 200}
FitOptions == {"maxZoom15", "custom"}
\* the map's max bounds: unset, or the envelope [[1,1],[1,2]] (sw, ne)
NoBounds == [set |-> FALSE, west |-> 0, south |-> 0, east |-> 0, north |-> 0]
Box == [set |-> TRUE, west |-> 1, south |-> 1, east |-> 1, north |-> 2]
MaxBoundsValues == {NoBounds, Box}
MapEvents == {"zoom", "move", "rotate", "pitch"}
EventTypes == {"geolocate", "outofmaxbounds"}
\* what a registered handler does when invoked: return normally, throw, or
\* call trigger() on the control
HandlerKinds == {"ok", "throw", "trigger"}
WatchStates == {"OFF", "WAITING_ACTIVE", "ACTIVE_LOCK"}

\* identifiers the host hands out for timers; 0 stands for undefined.  The
\* identifiers are opaque handles: after every operation the pending timers
\* are renumbered 1, 2, ... in firing order, and an identifier that names no
\* pending timer any more is written StaleId
TimerIds == 1 .. MaxPending
StaleId == MaxPending + 1

NoMarker == [exists |-> FALSE, onMap |-> FALSE, lngLat |-> [lng |-> 0, lat |-> 0], width |-> 0]

VARIABLES
  map,                    \* _map: "map" when attached, "undefined" otherwise
  button,                 \* _container/_button/_onClickHandler exist
  buttonClass,            \* state class on the button: "", "waiting", "active"
  position,               \* _position
  accuracy,               \* _accuracy
  showAccuracyCircle,     \* _showAccuracyCircle
  fitBoundsOptions,       \* _fitBoundsOptions
  eventHandlers,          \* _eventHandlers: event type -> sequence of handlers
  positionMarker,         \* _positionMarker
  accuracyMarker,         \* _accuracyMarker
  mapEventListenersSetup, \* _mapEventListenersSetup
  updateCircleHandler,    \* _updateCircleHandler is defined
  watchState,             \* _watchState
  geolocateTimeoutId,     \* _geolocateTimeoutId (0 = undefined)
  timers,                 \* host: pending timeouts, in firing order
  mapMaxBounds,           \* host: map.getMaxBounds()
  mapScale,               \* host: meters per pixel of the viewport
  mapListeners,           \* host: map event -> number of listeners of the control
  maplibreClasses,        \* _maplibreClasses is loaded (SSR-safe control only)
  op,                     \* observation: the operation that ran last
  pre,                    \* observation: what the last operation started from
  fired,                  \* observation: _fire calls made by the last operation
  invoked,                \* observation: handler invocations of the last operation
  fitCalls,               \* observation: map.fitBounds calls of the last operation
  threw,                  \* observation: the last operation ended by an exception
  reentered,              \* observation: a handler called trigger() during it
  markerLog,              \* observation: markers the last operation made, destroyed
  args,                   \* observation: the last call's arguments, where recorded
  history                 \* observation: bookkeeping for the temporal claims

vars == <<map, button, buttonClass, position, accuracy, showAccuracyCircle,
          fitBoundsOptions, eventHandlers, positionMarker, accuracyMarker,
          mapEventListenersSetup, updateCircleHandler, watchState,
          geolocateTimeoutId, timers, mapMaxBounds, mapScale, mapListeners,
          maplibreClasses, op, pre, fired, invoked, fitCalls, threw, reentered, markerLog,
          args, history>>

\* the current state as one record, the observations of the operation that
\* is about to run being empty
Cur ==
  [map |-> map, button |-> button, buttonClass |-> buttonClass,
   position |-> position, accuracy |-> accuracy,
   showAccuracyCircle |-> showAccuracyCircle,
   fitBoundsOptions |-> fitBoundsOptions, eventHandlers |-> eventHandlers,
   positionMarker |-> positionMarker, accuracyMarker |-> accuracyMarker,
   mapEventListenersSetup |-> mapEventListenersSetup,
   updateCircleHandler |-> updateCircleHandler, watchState |-> watchState,
   geolocateTimeoutId |-> geolocateTimeoutId, timers |-> timers,
   mapMaxBounds |-> mapMaxBounds, mapScale |-> mapScale,
   mapListeners |-> mapListeners, maplibreClasses |-> maplibreClasses,
   fired |-> <<>>, invoked |-> <<>>, fitCalls |-> <<>>, threw |-> FALSE,
   reentered |-> FALSE, created |-> 0, destroyed |-> 0]

Range(f) == {f[i] : i \in DOMAIN f}

RECURSIVE indexOf(_, _, _)
\* Array.prototype.indexOf from position i on; 0 stands for -1
indexOf(q, x, i) ==
  IF i > Len(q) THEN 0 ELSE IF q[i] = x THEN i ELSE indexOf(q, x, i + 1)

RECURSIVE Without(_, _)
\* the sequence q with every occurrence of x removed
Without(q, x) ==
  IF q = <<>> THEN <<>>
  ELSE IF Head(q) = x THEN Without(Tail(q), x)
       ELSE <<Head(q)>> \o Without(Tail(q), x)

(***************************************************************************)
(* Host timer queue                                                         *)
(***************************************************************************)
\* the identifier setTimeout returns: the smallest one that names no
\* pending timer (the control overwrites the identifier it holds with it)
FreshTimerId(s) ==
  CHOOSE n \in 1 .. (MaxPending + 1) :
    /\ n \notin Range(s.timers)
    /\ \A m \in 1 .. (MaxPending + 1) : m \notin Range(s.timers) => n <= m

\* clearTimeout(id): a pending timer is dropped, any other id is ignored
clearTimeout(s, id) == [s EXCEPT !.timers = Without(@, id)]

(***************************************************************************)
(* Private helpers of the control                                           *)
(***************************************************************************)
_updateButtonClasses(s) ==
  IF ~s.button THEN s
  ELSE [s EXCEPT !.buttonClass =
          CASE s.watchState = "WAITING_ACTIVE" -> "waiting"
            [] s.watchState = "ACTIVE_LOCK" -> "active"
            [] OTHER -> ""]

\* a faulty bounds check: a position on an edge counts as out of bounds
isOutOfMapMaxBoundsEdgesOut(s) ==
  IF s.map = "undefined" THEN FALSE
  ELSE IF ~s.mapMaxBounds.set THEN FALSE
  ELSE \/ s.position.lng <= s.mapMaxBounds.west
       \/ s.position.lng >= s.mapMaxBounds.east
       \/ s.position.lat <= s.mapMaxBounds.south
       \/ s.position.lat >= s.mapMaxBounds.north

_isOutOfMapMaxBounds(s) ==
  IF s.map = "undefined" THEN FALSE
  ELSE IF ~s.mapMaxBounds.set THEN FALSE
  ELSE \/ s.position.lng < s.mapMaxBounds.west
       \/ s.position.lng > s.mapMaxBounds.east
       \/ s.position.lat < s.mapMaxBounds.south
       \/ s.position.lat > s.mapMaxBounds.north

\* meters per pixel at the control's position, as the map's project /
\* unproject round trip and distanceTo yield it: it depends on the viewport
\* and on the latitude of the position
metersPerPixel(s) == s.mapScale * (1 + s.position.lat)

\* toFixed(2): the number x / y in hundredths, rounded to the nearest
toFixed2(x, y) == (200 * x + y) \div (2 * y)

\* pixel diameter of the accuracy circle, in hundredths of a pixel as the
\* style gets it: (2 * accuracy / metersPerPixel).toFixed(2)
circleDiameter(s) == toFixed2(2 * s.accuracy, metersPerPixel(s))

_updateAccuracyCircle(s) ==
  IF s.map = "undefined" \/ ~s.accuracyMarker.exists \/ ~s.showAccuracyCircle
  THEN s
  ELSE [s EXCEPT !.accuracyMarker.width = circleDiameter(s)]

\* a faulty listener set-up: only zoom events reach the control
mapEventZoomOnly(s, e) ==
  IF e = "zoom" /\ s.mapListeners[e] > 0 THEN _updateAccuracyCircle(s) ELSE s

\* the map fires a viewport event of type e: the control's listener, if one
\* is registered for e, is _updateAccuracyCircle
mapEvent(s, e) ==
  IF s.mapListeners[e] > 0 THEN _updateAccuracyCircle(s) ELSE s

\* a faulty _setupMapEventListeners: it registers the listeners again when
\* they are registered already
setupMapEventListenersAgain(s) ==
  IF s.map = "undefined" \/ ~s.showAccuracyCircle
  THEN s
  ELSE [s EXCEPT !.updateCircleHandler = TRUE,
                 !.mapListeners = [e \in MapEvents |-> @[e] + 1],
                 !.mapEventListenersSetup = TRUE]

_setupMapEventListeners(s) ==
  IF s.map = "undefined" \/ s.mapEventListenersSetup \/ ~s.showAccuracyCircle
  THEN s
  ELSE [s EXCEPT !.updateCircleHandler = TRUE,
                 !.mapListeners = [e \in MapEvents |-> @[e] + 1],
                 !.mapEventListenersSetup = TRUE]

\* a faulty _removeMapEventListeners: the flags are reset but map.off is
\* never called
removeMapEventListenersFlagsOnly(s) ==
  IF s.map = "undefined" \/ ~s.mapEventListenersSetup \/ ~s.updateCircleHandler
  THEN s
  ELSE [s EXCEPT !.updateCircleHandler = FALSE,
                 !.mapEventListenersSetup = FALSE]

_removeMapEventListeners(s) ==
  IF s.map = "undefined" \/ ~s.mapEventListenersSetup \/ ~s.updateCircleHandler
  THEN s
  ELSE [s EXCEPT !.mapListeners =
                    [e \in MapEvents |-> IF @[e] > 0 THEN @[e] - 1 ELSE 0],
                 !.updateCircleHandler = FALSE,
                 !.mapEventListenersSetup = FALSE]

\* a faulty _hideMarkers: the markers are destroyed and made anew
hideMarkersRecreates(s) ==
  LET s1 == IF s.positionMarker.exists
            THEN [s EXCEPT !.positionMarker =
                              [@ EXCEPT !.onMap = FALSE, !.width = 0],
                           !.created = @ + 1, !.destroyed = @ + 1]
            ELSE s
      s2 == IF s1.accuracyMarker.exists
            THEN [s1 EXCEPT !.accuracyMarker =
                               [@ EXCEPT !.onMap = FALSE, !.width = 0],
                            !.created = @ + 1, !.destroyed = @ + 1]
            ELSE s1
  IN _removeMapEventListeners(s2)

_createMarkers(s) ==
  [s EXCEPT !.created = @ + 2,
            !.accuracyMarker =
               [exists |-> TRUE, onMap |-> FALSE, lngLat |-> s.position,
                width |-> 0],
            !.positionMarker =
               [exists |-> TRUE, onMap |-> FALSE, lngLat |-> s.position,
                width |-> 0]]

_showMarkers(s) ==
  IF s.map = "undefined" THEN s
  ELSE LET s1 == IF s.accuracyMarker.exists /\ s.showAccuracyCircle
                 THEN _updateAccuracyCircle(
                        [s EXCEPT !.accuracyMarker.onMap = TRUE])
                 ELSE s
           s2 == IF s1.positionMarker.exists
                 THEN [s1 EXCEPT !.positionMarker.onMap = TRUE]
                 ELSE s1
       IN _setupMapEventListeners(s2)

\* a faulty _hideMarkers: the accuracy circle stays on the map
hideMarkersPositionOnly(s) ==
  _removeMapEventListeners(
    IF s.positionMarker.exists
    THEN [s EXCEPT !.positionMarker.onMap = FALSE] ELSE s)

_hideMarkers(s) ==
  LET s1 == IF s.positionMarker.exists
            THEN [s EXCEPT !.positionMarker.onMap = FALSE] ELSE s
      s2 == IF s1.accuracyMarker.exists
            THEN [s1 EXCEPT !.accuracyMarker.onMap = FALSE] ELSE s1
  IN _removeMapEventListeners(s2)

\* a faulty _updateCamera: fitBounds gets the default options, not the
\* configured ones
updateCameraDefaultOptions(s) ==
  IF s.map = "undefined" THEN s
  ELSE [s EXCEPT !.fitCalls =
          Append(@, [center |-> s.position, radius |-> s.accuracy,
                     options |-> "maxZoom15"])]

_updateCamera(s) ==
  IF s.map = "undefined" THEN s
  ELSE [s EXCEPT !.fitCalls =
          Append(@, [center |-> s.position, radius |-> s.accuracy,
                     options |-> s.fitBoundsOptions])]

(***************************************************************************)
(* Public operations                                                        *)
(***************************************************************************)
\* LngLat.convert of the map library, as setPosition and the constructor
\* call it: a LngLat instance, an array of two or three numbers and an
\* object with lat and lng or lon give a LngLat; everything else, a
\* coordinate that is not a number and a latitude outside [-90, 90] throw
\* the entry of the value under a key: Number(undefined) is NaN
Has(input, key) == \E e \in input.entries : e[1] = key
Get(input, key) == (CHOOSE e \in input.entries : e[1] = key)[2]
NaN == [ok |-> FALSE, lng |-> 0, lat |-> 0]
\* new LngLat(lng, lat): a latitude outside [-90, 90] throws
NewLngLat(lng, lat) ==
  IF lat < -90 \/ lat > 90 THEN NaN
  ELSE [ok |-> TRUE, lng |-> lng, lat |-> lat]

\* a faulty convert: whatever it is given becomes a coordinate
convertAnything(input) ==
  [ok |-> TRUE,
   lng |-> IF Has(input, "lng") THEN Get(input, "lng")
           ELSE IF Has(input, "lon") THEN Get(input, "lon")
           ELSE IF Has(input, "0") THEN Get(input, "0") ELSE 0,
   lat |-> IF Has(input, "lat") THEN Get(input, "lat")
           ELSE IF Has(input, "1") THEN Get(input, "1") ELSE 0]

\* a faulty convert: an array is read as [lat, lng]
convertLatLngArray(input) ==
  IF input.isLngLat
  THEN [ok |-> TRUE, lng |-> Get(input, "lng"), lat |-> Get(input, "lat")]
  ELSE IF input.isArray /\ Cardinality(input.entries) \in {2, 3}
  THEN NewLngLat(Get(input, "1"), Get(input, "0"))
  ELSE IF input.isObject /\ Has(input, "lat")
            /\ (Has(input, "lng") \/ Has(input, "lon"))
  THEN NewLngLat(IF Has(input, "lng") THEN Get(input, "lng")
                 ELSE Get(input, "lon"),
                 Get(input, "lat"))
  ELSE NaN

convert(input) ==
  IF input.isLngLat
  THEN [ok |-> TRUE, lng |-> Get(input, "lng"), lat |-> Get(input, "lat")]
  ELSE IF input.isArray /\ Cardinality(input.entries) \in {2, 3}
  THEN NewLngLat(Get(input, "0"), Get(input, "1"))
  ELSE IF input.isObject /\ Has(input, "lat")
            /\ (Has(input, "lng") \/ Has(input, "lon"))
  THEN NewLngLat(IF Has(input, "lng") THEN Get(input, "lng")
                 ELSE Get(input, "lon"),
                 Get(input, "lat"))
  ELSE NaN

\* trigger(), case "OFF": the timeout scheduled here runs geolocateTimeout
triggerOff(s) ==
  LET s1 == _updateButtonClasses([s EXCEPT !.watchState = "WAITING_ACTIVE"])
      s2 == IF s1.geolocateTimeoutId # 0
            THEN clearTimeout(s1, s1.geolocateTimeoutId)
            ELSE s1
      id == FreshTimerId(s2)
  IN [s2 EXCEPT !.timers = Append(@, id), !.geolocateTimeoutId = id]

\* trigger(), case "WAITING_ACTIVE"
triggerWaiting(s) ==
  LET s1 == IF s.geolocateTimeoutId # 0
            THEN [clearTimeout(s, s.geolocateTimeoutId)
                    EXCEPT !.geolocateTimeoutId = 0]
            ELSE s
  IN _updateButtonClasses([s1 EXCEPT !.watchState = "OFF"])

\* a faulty case "ACTIVE_LOCK": the markers are hidden but the state is kept
triggerActiveKeepsState(s) == _hideMarkers(s)

\* trigger(), case "ACTIVE_LOCK"
triggerActive(s) ==
  _hideMarkers(_updateButtonClasses([s EXCEPT !.watchState = "OFF"]))

\* a faulty trigger(): it does not look whether the control is on a map
triggerWithoutMap(s) ==
  CASE s.watchState = "OFF" -> triggerOff(s)
    [] s.watchState = "WAITING_ACTIVE" -> triggerWaiting(s)
    [] s.watchState = "ACTIVE_LOCK" -> triggerActive(s)

trigger(s) ==
  IF s.map = "undefined" THEN s
  ELSE CASE s.watchState = "OFF" -> triggerOff(s)
         [] s.watchState = "WAITING_ACTIVE" -> triggerWaiting(s)
         [] s.watchState = "ACTIVE_LOCK" -> triggerActive(s)

\* a faulty payload: the accuracy is the constructor's default, not the
\* current one
eventDataDefaultAccuracy(s, type) ==
  [type |-> type,
   fields |-> {"coords"},
   latitude |-> s.position.lat, longitude |-> s.position.lng,
   accuracy |-> DefaultAccuracy,
   seenWatchState |-> s.watchState,
   seenPositionOnMap |-> s.positionMarker.onMap,
   seenAccuracyOnMap |-> s.accuracyMarker.onMap,
   seenFitCalls |-> Len(s.fitCalls)]

\* the payload built from the current position and accuracy, with what a
\* handler reading the control at that moment observes
eventData(s, type) ==
  [type |-> type,
   fields |-> {"coords"},
   latitude |-> s.position.lat, longitude |-> s.position.lng,
   accuracy |-> s.accuracy,
   seenWatchState |-> s.watchState,
   seenPositionOnMap |-> s.positionMarker.onMap,
   seenAccuracyOnMap |-> s.accuracyMarker.onMap,
   seenFitCalls |-> Len(s.fitCalls)]

RECURSIVE invokeHandlers(_, _, _)
\* the for-of loop of _fire from handler i on, the payload being the one
\* _fire was called with: an exception thrown by a handler leaves the loop
\* and the function.  Each invocation is recorded with the payload it gets
\* and with what the getters of the control return inside the handler
invokeHandlers(s, type, i) ==
  IF i > Len(s.eventHandlers[type]) THEN s
  ELSE LET h == s.eventHandlers[type][i]
           data == s.fired[Len(s.fired)]
           s1 == [s EXCEPT !.invoked =
                    Append(@, [type |-> type, index |-> i, handler |-> h,
                               latitude |-> data.latitude,
                               longitude |-> data.longitude,
                               accuracy |-> data.accuracy,
                               readWatchState |-> s.watchState,
                               readPosition |-> s.position,
                               readAccuracy |-> s.accuracy,
                               readPositionOnMap |-> s.positionMarker.onMap,
                               readFitCalls |-> Len(s.fitCalls),
                               afterReentry |-> s.reentered])]
       IN CASE h = "ok" -> invokeHandlers(s1, type, i + 1)
            [] h = "throw" -> [s1 EXCEPT !.threw = TRUE]
            [] h = "trigger" ->
                 invokeHandlers([trigger(s1) EXCEPT !.reentered = TRUE],
                                type, i + 1)

_fire(s, type) ==
  invokeHandlers([s EXCEPT !.fired = Append(@, eventData(s, type))], type, 1)

\* a faulty out-of-bounds branch: the event is fired before the state changes
rejectOutOfBoundsFiresFirst(s) ==
  LET s1 == _fire(s, "outofmaxbounds")
  IN _updateButtonClasses([s1 EXCEPT !.watchState = "OFF"])

\* the callback's branch for a position outside the max bounds
rejectOutOfBounds(s) ==
  _fire(_updateButtonClasses([s EXCEPT !.watchState = "OFF"]),
        "outofmaxbounds")

\* the callback's branch for a position within the max bounds
activate(s) ==
  _fire(_updateCamera(_showMarkers(_updateButtonClasses(
          [s EXCEPT !.watchState = "ACTIVE_LOCK"]))),
        "geolocate")

\* a faulty callback: it does not look at the watch state
geolocateTimeoutUnguarded(s) ==
  LET s1 == IF _isOutOfMapMaxBounds(s) THEN rejectOutOfBounds(s)
            ELSE activate(s)
  IN IF s1.threw THEN s1 ELSE [s1 EXCEPT !.geolocateTimeoutId = 0]

\* the callback passed to setTimeout in trigger(): an exception of a handler
\* leaves it before the identifier is reset
geolocateTimeout(s) ==
  IF s.watchState # "WAITING_ACTIVE" THEN s
  ELSE LET s1 == IF _isOutOfMapMaxBounds(s) THEN rejectOutOfBounds(s)
                 ELSE activate(s)
       IN IF s1.threw THEN s1 ELSE [s1 EXCEPT !.geolocateTimeoutId = 0]

\* a faulty constructor: the defaults replace every falsy option (||), not
\* only the undefined ones (??)
constructorDefaultsWhenFalsy(s, options) ==
  IF options.position.shape \in {"undefined", "null"}
  THEN [s EXCEPT !.threw = TRUE]
  ELSE LET c == convert(options.position)
       IN IF ~c.ok THEN [s EXCEPT !.threw = TRUE]
          ELSE [s EXCEPT
                  !.position = [lng |-> c.lng, lat |-> c.lat],
                  !.accuracy = IF options.accuracy.given
                                  /\ options.accuracy.value # 0
                               THEN options.accuracy.value
                               ELSE DefaultAccuracy,
                  !.showAccuracyCircle =
                     IF options.showAccuracyCircle.given
                        /\ options.showAccuracyCircle.value
                     THEN options.showAccuracyCircle.value ELSE TRUE,
                  !.fitBoundsOptions =
                     IF options.fitBoundsOptions.given
                     THEN options.fitBoundsOptions.value ELSE "maxZoom15"]

\* constructor(options) on the fields s as their initialisers leave them: a
\* missing position throws, and so does one LngLat.convert rejects; the
\* other options take their default when they are undefined
constructor(s, options) ==
  IF options.position.shape \in {"undefined", "null"}
  THEN [s EXCEPT !.threw = TRUE]
  ELSE LET c == convert(options.position)
       IN IF ~c.ok THEN [s EXCEPT !.threw = TRUE]
          ELSE [s EXCEPT
                  !.position = [lng |-> c.lng, lat |-> c.lat],
                  !.accuracy = IF options.accuracy.given
                               THEN options.accuracy.value
                               ELSE DefaultAccuracy,
                  !.showAccuracyCircle =
                     IF options.showAccuracyCircle.given
                     THEN options.showAccuracyCircle.value ELSE TRUE,
                  !.fitBoundsOptions =
                     IF options.fitBoundsOptions.given
                     THEN options.fitBoundsOptions.value ELSE "maxZoom15"]

onAdd(s) ==
  _createMarkers([s EXCEPT !.map = "map", !.button = TRUE, !.buttonClass = ""])

onRemove(s) ==
  LET s1 == IF s.geolocateTimeoutId # 0
            THEN [clearTimeout(s, s.geolocateTimeoutId)
                    EXCEPT !.geolocateTimeoutId = 0]
            ELSE s
      s2 == _removeMapEventListeners(s1)
  IN [s2 EXCEPT !.button = FALSE, !.buttonClass = "",
                !.destroyed = @ + (IF s2.positionMarker.exists THEN 1 ELSE 0)
                                + (IF s2.accuracyMarker.exists THEN 1 ELSE 0),
                !.positionMarker = NoMarker, !.accuracyMarker = NoMarker,
                !.map = "undefined"]

\* a faulty setPosition: a position out of bounds deactivates the control
setPositionDeactivates(s, coordinates) ==
  LET c == convert(coordinates)
      s1 == [s EXCEPT !.position = [lng |-> c.lng, lat |-> c.lat]]
      s2 == IF s1.positionMarker.exists
            THEN [s1 EXCEPT !.positionMarker.lngLat = s1.position] ELSE s1
      s3 == IF s2.accuracyMarker.exists
            THEN _updateAccuracyCircle(
                   [s2 EXCEPT !.accuracyMarker.lngLat = s2.position])
            ELSE s2
  IN IF ~c.ok THEN [s EXCEPT !.threw = TRUE]
     ELSE IF s3.watchState = "ACTIVE_LOCK"
     THEN IF _isOutOfMapMaxBounds(s3) THEN rejectOutOfBounds(_hideMarkers(s3))
          ELSE _fire(s3, "geolocate")
     ELSE s3

\* a faulty setPosition: the accuracy circle is left where it was
setPositionLeavesCircle(s, coordinates) ==
  LET c == convert(coordinates)
      s1 == [s EXCEPT !.position = [lng |-> c.lng, lat |-> c.lat]]
      s3 == IF s1.positionMarker.exists
            THEN [s1 EXCEPT !.positionMarker.lngLat = s1.position] ELSE s1
  IN IF ~c.ok THEN [s EXCEPT !.threw = TRUE]
     ELSE IF s3.watchState = "ACTIVE_LOCK"
     THEN IF _isOutOfMapMaxBounds(s3) THEN _fire(s3, "outofmaxbounds")
          ELSE _fire(s3, "geolocate")
     ELSE s3

\* a faulty setPosition: while active it fires geolocate without looking at
\* the max bounds
setPositionIgnoresBounds(s, coordinates) ==
  LET c == convert(coordinates)
      s1 == [s EXCEPT !.position = [lng |-> c.lng, lat |-> c.lat]]
      s2 == IF s1.positionMarker.exists
            THEN [s1 EXCEPT !.positionMarker.lngLat = s1.position] ELSE s1
      s3 == IF s2.accuracyMarker.exists
            THEN _updateAccuracyCircle(
                   [s2 EXCEPT !.accuracyMarker.lngLat = s2.position])
            ELSE s2
  IN IF ~c.ok THEN [s EXCEPT !.threw = TRUE]
     ELSE IF s3.watchState = "ACTIVE_LOCK" THEN _fire(s3, "geolocate")
     ELSE s3

setPosition(s, coordinates) ==
  LET c == convert(coordinates)
      s1 == [s EXCEPT !.position = [lng |-> c.lng, lat |-> c.lat]]
      s2 == IF s1.positionMarker.exists
            THEN [s1 EXCEPT !.positionMarker.lngLat = s1.position] ELSE s1
      s3 == IF s2.accuracyMarker.exists
            THEN _updateAccuracyCircle(
                   [s2 EXCEPT !.accuracyMarker.lngLat = s2.position])
            ELSE s2
  IN IF ~c.ok THEN [s EXCEPT !.threw = TRUE]
     ELSE IF s3.watchState = "ACTIVE_LOCK"
     THEN IF _isOutOfMapMaxBounds(s3) THEN _fire(s3, "outofmaxbounds")
          ELSE _fire(s3, "geolocate")
     ELSE s3

\* a faulty setAccuracy: while active it looks at the max bounds as
\* setPosition does
setAccuracyChecksBounds(s, a) ==
  LET s1 == [s EXCEPT !.accuracy = a]
      s2 == IF s1.accuracyMarker.exists /\ s1.showAccuracyCircle
            THEN _updateAccuracyCircle(s1) ELSE s1
  IN IF s2.watchState = "ACTIVE_LOCK"
     THEN IF _isOutOfMapMaxBounds(s2) THEN _fire(s2, "outofmaxbounds")
          ELSE _fire(s2, "geolocate")
     ELSE s2

setAccuracy(s, a) ==
  LET s1 == [s EXCEPT !.accuracy = a]
      s2 == IF s1.accuracyMarker.exists /\ s1.showAccuracyCircle
            THEN _updateAccuracyCircle(s1) ELSE s1
  IN IF s2.watchState = "ACTIVE_LOCK" THEN _fire(s2, "geolocate") ELSE s2

\* a faulty setShowAccuracyCircle: hiding the circle hides both markers
setShowAccuracyCircleHidesAll(s, show) ==
  LET s1 == [s EXCEPT !.showAccuracyCircle = show]
  IN IF s1.map = "undefined" \/ ~s1.accuracyMarker.exists THEN s1
     ELSE IF show /\ s1.watchState = "ACTIVE_LOCK"
          THEN _setupMapEventListeners(_updateAccuracyCircle(
                 [s1 EXCEPT !.accuracyMarker.onMap = TRUE]))
          ELSE IF ~show THEN _hideMarkers(s1)
               ELSE s1

\* a faulty setShowAccuracyCircle: showing attaches the circle in any state
setShowAccuracyCircleAlwaysAttaches(s, show) ==
  LET s1 == [s EXCEPT !.showAccuracyCircle = show]
  IN IF s1.map = "undefined" \/ ~s1.accuracyMarker.exists THEN s1
     ELSE IF show
          THEN _setupMapEventListeners(_updateAccuracyCircle(
                 [s1 EXCEPT !.accuracyMarker.onMap = TRUE]))
          ELSE _removeMapEventListeners(
                 [s1 EXCEPT !.accuracyMarker.onMap = FALSE])

setShowAccuracyCircle(s, show) ==
  LET s1 == [s EXCEPT !.showAccuracyCircle = show]
  IN IF s1.map = "undefined" \/ ~s1.accuracyMarker.exists THEN s1
     ELSE IF show /\ s1.watchState = "ACTIVE_LOCK"
          THEN _setupMapEventListeners(_updateAccuracyCircle(
                 [s1 EXCEPT !.accuracyMarker.onMap = TRUE]))
          ELSE IF ~show
               THEN _removeMapEventListeners(
                      [s1 EXCEPT !.accuracyMarker.onMap = FALSE])
               ELSE s1

getPosition(s) == s.position

\* a faulty setFitBoundsOptions: the camera is fitted at once
setFitBoundsOptionsRefits(s, options) ==
  _updateCamera([s EXCEPT !.fitBoundsOptions = options])

setFitBoundsOptions(s, options) == [s EXCEPT !.fitBoundsOptions = options]

on(s, type, listener) ==
  [s EXCEPT !.eventHandlers[type] = Append(@, listener)]

\* a faulty off: the last registration of the listener is removed
offRemovesLast(s, type, listener) ==
  LET handlers == s.eventHandlers[type]
      found == {i \in DOMAIN handlers : handlers[i] = listener}
      index == IF found = {} THEN 0
               ELSE CHOOSE i \in found : \A k \in found : k <= i
  IN IF index # 0
     THEN [s EXCEPT !.eventHandlers[type] =
             SubSeq(handlers, 1, index - 1)
               \o SubSeq(handlers, index + 1, Len(handlers))]
     ELSE s

off(s, type, listener) ==
  LET handlers == s.eventHandlers[type]
      index == indexOf(handlers, listener, 1)
  IN IF index # 0
     THEN [s EXCEPT !.eventHandlers[type] =
             SubSeq(handlers, 1, index - 1)
               \o SubSeq(handlers, index + 1, Len(handlers))]
     ELSE s

(***************************************************************************)
(* Specification                                                            *)
(***************************************************************************)
\* no argument recorded
NoArgs == [type |-> "", listener |-> ""]

NoHistory ==
  [acc |-> 0, accTimer |-> 0, cancelled |-> {}, firedCancelled |-> FALSE,
   removedWaiting |-> FALSE]

\* constructor: position is required, the other options have defaults
Init ==
  /\ map = "undefined"
  /\ button = FALSE
  /\ buttonClass = ""
  /\ position \in Positions
  /\ accuracy \in Accuracies
  /\ showAccuracyCircle \in BOOLEAN
  /\ fitBoundsOptions \in FitOptions
  /\ eventHandlers = [e \in EventTypes |-> <<>>]
  /\ positionMarker = NoMarker
  /\ accuracyMarker = NoMarker
  /\ mapEventListenersSetup = FALSE
  /\ updateCircleHandler = FALSE
  /\ watchState = "OFF"
  /\ geolocateTimeoutId = 0
  /\ timers = <<>>
  /\ mapMaxBounds \in MaxBoundsValues
  /\ mapScale = 1
  /\ mapListeners = [e \in MapEvents |-> 0]
  /\ maplibreClasses = FALSE
  /\ op = "new"
  /\ pre = [watchState |-> "OFF", map |-> "undefined", pending |-> 0,
            positionOnMap |-> FALSE, accuracyOnMap |-> FALSE,
            listening |-> FALSE]
  /\ fired = <<>>
  /\ invoked = <<>>
  /\ fitCalls = <<>>
  /\ threw = FALSE
  /\ reentered = FALSE
  /\ markerLog = [created |-> 0, destroyed |-> 0]
  /\ args = NoArgs
  /\ history = NoHistory

\* the name under which the timer id of state r is written once the pending
\* timers of r are renumbered in firing order
Renumbered(r, id) ==
  IF id = 0 THEN 0
  ELSE IF indexOf(r.timers, id, 1) # 0 THEN indexOf(r.timers, id, 1)
  ELSE StaleId

\* the state r an operation named o produced becomes the next state; h is
\* the bookkeeping the operation leaves and a the arguments recorded for it
Step(r, o, h, a) ==
  /\ map' = r.map
  /\ button' = r.button
  /\ buttonClass' = r.buttonClass
  /\ position' = r.position
  /\ accuracy' = r.accuracy
  /\ showAccuracyCircle' = r.showAccuracyCircle
  /\ fitBoundsOptions' = r.fitBoundsOptions
  /\ eventHandlers' = r.eventHandlers
  /\ positionMarker' = r.positionMarker
  /\ accuracyMarker' = r.accuracyMarker
  /\ mapEventListenersSetup' = r.mapEventListenersSetup
  /\ updateCircleHandler' = r.updateCircleHandler
  /\ watchState' = r.watchState
  /\ geolocateTimeoutId' = Renumbered(r, r.geolocateTimeoutId)
  /\ timers' = [i \in 1 .. Len(r.timers) |-> i]
  /\ mapMaxBounds' = r.mapMaxBounds
  /\ mapScale' = r.mapScale
  /\ mapListeners' = r.mapListeners
  /\ maplibreClasses' = r.maplibreClasses
  /\ op' = o
  /\ pre' = [watchState |-> watchState, map |-> map, pending |-> Len(timers),
             positionOnMap |-> positionMarker.onMap,
             accuracyOnMap |-> accuracyMarker.onMap,
             listening |-> \E e \in MapEvents : mapListeners[e] > 0]
  /\ fired' = r.fired
  /\ invoked' = r.invoked
  /\ fitCalls' = r.fitCalls
  /\ threw' = r.threw
  /\ reentered' = r.reentered
  /\ markerLog' = [created |-> r.created, destroyed |-> r.destroyed]
  /\ args' = a
  /\ history' =
       [h EXCEPT
          !.accTimer = IF indexOf(r.timers, @, 1) # 0
                       THEN indexOf(r.timers, @, 1) ELSE 0,
          !.cancelled = {indexOf(r.timers, id, 1) :
                           id \in @ \cap Range(r.timers)}]

Apply(r, o, h) == Step(r, o, h, NoArgs)

\* bookkeeping after trigger(): the accessor sequence OFF -> WAITING_ACTIVE
\* -> ACTIVE_LOCK -> OFF advances, and a trigger() made while WAITING_ACTIVE
\* withdraws the activations pending at that moment
TriggerHistory(r) ==
  LET starts == /\ history.acc # 2
                /\ map = "map" /\ watchState = "OFF"
                /\ ~_isOutOfMapMaxBounds(Cur)
  IN [history EXCEPT
        !.acc = IF history.acc = 2 THEN 3 ELSE IF starts THEN 1 ELSE 0,
        !.accTimer = IF starts THEN r.geolocateTimeoutId ELSE 0,
        !.cancelled = IF map = "map" /\ watchState = "WAITING_ACTIVE"
                      THEN Range(timers) ELSE @,
        !.firedCancelled = FALSE]

\* bookkeeping after any other call on the control
CallHistory ==
  [history EXCEPT !.acc = 0, !.accTimer = 0, !.firedCancelled = FALSE]

\* trigger(), called by the application or, through _onClick, by a click on
\* the button; a trigger() that schedules needs room in the timer queue
Trigger ==
  /\ (map = "map" /\ watchState = "OFF") => Len(timers) < MaxPending
  /\ LET r == trigger(Cur) IN Apply(r, "trigger", TriggerHistory(r))

\* the host runs the callback of the timer that is due first
TimerFire ==
  /\ timers # <<>>
  /\ LET id == Head(timers)
         r == geolocateTimeout([Cur EXCEPT !.timers = Tail(@)])
     IN Apply(r, "timer",
              [history EXCEPT
                 !.acc = IF r.reentered THEN 0
                         ELSE IF @ = 1 /\ history.accTimer = id THEN 2
                         ELSE @,
                 !.accTimer = IF r.reentered THEN 0 ELSE @,
                 !.firedCancelled = id \in history.cancelled])

\* map.addControl(control): the framework attaches a control that is not
\* attached
OnAdd ==
  /\ map = "undefined"
  /\ Apply(onAdd(Cur), "onAdd", [CallHistory EXCEPT !.removedWaiting = FALSE])

OnRemove ==
  Apply(onRemove(Cur), "onRemove",
        [CallHistory EXCEPT
           !.removedWaiting = @ \/ watchState = "WAITING_ACTIVE"])

SetPosition ==
  \E c \in Positions :
    Apply(setPosition(Cur, LngLatLike("lngLat", c)), "call", CallHistory)

SetAccuracy ==
  \E a \in Accuracies : Apply(setAccuracy(Cur, a), "call", CallHistory)

SetShowAccuracyCircle ==
  \E b \in BOOLEAN :
    Apply(setShowAccuracyCircle(Cur, b), "call", CallHistory)

SetFitBoundsOptions ==
  \E o \in FitOptions :
    Apply(setFitBoundsOptions(Cur, o), "call", CallHistory)

On ==
  /\ Len(eventHandlers["geolocate"]) + Len(eventHandlers["outofmaxbounds"])
       < MaxHandlers
  /\ \E e \in EventTypes, h \in HandlerKinds :
       Apply(on(Cur, e, h), "call", CallHistory)

Off ==
  \E e \in EventTypes, h \in HandlerKinds :
    Apply(off(Cur, e, h), "call", CallHistory)

Next ==
  \/ Trigger
  \/ TimerFire
  \/ OnAdd
  \/ OnRemove
  \/ SetPosition
  \/ SetAccuracy
  \/ SetShowAccuracyCircle
  \/ SetFitBoundsOptions
  \/ On
  \/ Off

Spec == Init /\ [][Next]_vars

(***************************************************************************)
(* The same operations with every call recorded under its own name and,     *)
(* for on and off, with its arguments; setPosition is given coordinates of  *)
(* every shape, valid or not.  No bookkeeping for the temporal claims is    *)
(* kept, and at most MaxListeners handlers are registered.                  *)
(***************************************************************************)
CallTrigger ==
  /\ (map = "map" /\ watchState = "OFF") => Len(timers) < MaxPending
  /\ Step(trigger(Cur), "trigger", NoHistory, NoArgs)

CallTimerFire ==
  /\ timers # <<>>
  /\ Step(geolocateTimeout([Cur EXCEPT !.timers = Tail(@)]), "timer",
          NoHistory, NoArgs)

CallOnAdd ==
  /\ map = "undefined"
  /\ Step(onAdd(Cur), "onAdd", NoHistory, NoArgs)

CallOnRemove == Step(onRemove(Cur), "onRemove", NoHistory, NoArgs)

CallSetPosition ==
  \E c \in CoordinateInputs :
    Step(setPosition(Cur, c), "setPosition", NoHistory, NoArgs)

CallSetAccuracy ==
  \E a \in Accuracies :
    Step(setAccuracy(Cur, a), "setAccuracy", NoHistory, NoArgs)

CallSetShowAccuracyCircle ==
  \E b \in BOOLEAN :
    Step(setShowAccuracyCircle(Cur, b), "setShowAccuracyCircle", NoHistory,
         NoArgs)

CallSetFitBoundsOptions ==
  \E o \in FitOptions :
    Step(setFitBoundsOptions(Cur, o), "setFitBoundsOptions", NoHistory, NoArgs)

CallOn ==
  /\ Len(eventHandlers["geolocate"]) + Len(eventHandlers["outofmaxbounds"])
       < MaxListeners
  /\ \E e \in EventTypes, h \in HandlerKinds :
       Step(on(Cur, e, h), "on", NoHistory, [type |-> e, listener |-> h])

CallOff ==
  \E e \in EventTypes, h \in HandlerKinds :
    Step(off(Cur, e, h), "off", NoHistory, [type |-> e, listener |-> h])

NextCalls ==
  \/ CallTrigger
  \/ CallTimerFire
  \/ CallOnAdd
  \/ CallOnRemove
  \/ CallSetPosition
  \/ CallSetAccuracy
  \/ CallSetShowAccuracyCircle
  \/ CallSetFitBoundsOptions
  \/ CallOn
  \/ CallOff

SpecCalls == Init /\ [][NextCalls]_vars

(***************************************************************************)
(* The handler table: a control built with the position option alone, its   *)
(* activation cycle, and on and off with up to MaxRegistrations handlers    *)
(* registered.                                                              *)
(***************************************************************************)
InitEvents ==
  /\ Init
  /\ accuracy = DefaultAccuracy
  /\ showAccuracyCircle
  /\ fitBoundsOptions = "maxZoom15"

RegisterOn ==
  /\ Len(eventHandlers["geolocate"]) + Len(eventHandlers["outofmaxbounds"])
       < MaxRegistrations
  /\ \E e \in EventTypes, h \in HandlerKinds :
       Step(on(Cur, e, h), "on", NoHistory, [type |-> e, listener |-> h])

NextEvents ==
  \/ CallOnAdd
  \/ CallTrigger
  \/ CallTimerFire
  \/ RegisterOn
  \/ CallOff

SpecEvents == InitEvents /\ [][NextEvents]_vars

(***************************************************************************)
(* Construction: new MockGeolocateControl(options) with every combination   *)
(* of supplied and missing options.                                         *)
(***************************************************************************)
\* an option that is supplied with a value, or left out
Supplied(values) == [given : {TRUE}, value : values]
Missing(value) == [given |-> FALSE, value |-> value]
ConstructorOptions ==
  [position : CoordinateInputs
                \cup {LngLatLike("undefined", [lng |-> 0, lat |-> 0])},
   accuracy : Supplied(Accuracies \cup {0}) \cup {Missing(0)},
   showAccuracyCircle : Supplied(BOOLEAN) \cup {Missing(FALSE)},
   fitBoundsOptions : Supplied(FitOptions) \cup {Missing("")}]

\* no control exists yet: the fields hold what their initialisers give them,
\* those the constructor assigns hold nothing
InitNew ==
  /\ map = "undefined"
  /\ button = FALSE
  /\ buttonClass = ""
  /\ position = [lng |-> 0, lat |-> 0]
  /\ accuracy = 0
  /\ showAccuracyCircle = FALSE
  /\ fitBoundsOptions = ""
  /\ eventHandlers = [e \in EventTypes |-> <<>>]
  /\ positionMarker = NoMarker
  /\ accuracyMarker = NoMarker
  /\ mapEventListenersSetup = FALSE
  /\ updateCircleHandler = FALSE
  /\ watchState = "OFF"
  /\ geolocateTimeoutId = 0
  /\ timers = <<>>
  /\ mapMaxBounds = NoBounds
  /\ mapScale = 1
  /\ mapListeners = [e \in MapEvents |-> 0]
  /\ maplibreClasses = FALSE
  /\ op = "none"
  /\ pre = [watchState |-> "OFF", map |-> "undefined", pending |-> 0,
            positionOnMap |-> FALSE, accuracyOnMap |-> FALSE,
            listening |-> FALSE]
  /\ fired = <<>>
  /\ invoked = <<>>
  /\ fitCalls = <<>>
  /\ threw = FALSE
  /\ reentered = FALSE
  /\ markerLog = [created |-> 0, destroyed |-> 0]
  /\ args = NoArgs
  /\ history = NoHistory

New ==
  /\ op = "none"
  /\ \E options \in ConstructorOptions :
       Step(constructor(Cur, options), "new", NoHistory, options)

NextNew == New

SpecNew == InitNew /\ [][NextNew]_vars

(***************************************************************************)
(* The bounds check: a control with default options whose position ranges   *)
(* over a grid around the max bounds of the map, attached, activated and    *)
(* moved while active.                                                      *)
(***************************************************************************)
\* coordinates 0 .. MaxCoordinate on both axes
MaxCoordinate == 4
GridPositions == [lng : 0 .. MaxCoordinate, lat : 0 .. MaxCoordinate]
\* max bounds [[1,1],[3,3]] (sw, ne): the grid has points beyond each edge,
\* on each edge and inside
Square == [set |-> TRUE, west |-> 1, south |-> 1, east |-> 3, north |-> 3]

InitBounds ==
  /\ map = "undefined"
  /\ button = FALSE
  /\ buttonClass = ""
  /\ position \in GridPositions
  /\ accuracy = DefaultAccuracy
  /\ showAccuracyCircle = TRUE
  /\ fitBoundsOptions = "maxZoom15"
  /\ eventHandlers = [e \in EventTypes |-> <<>>]
  /\ positionMarker = NoMarker
  /\ accuracyMarker = NoMarker
  /\ mapEventListenersSetup = FALSE
  /\ updateCircleHandler = FALSE
  /\ watchState = "OFF"
  /\ geolocateTimeoutId = 0
  /\ timers = <<>>
  /\ mapMaxBounds \in {NoBounds, Square}
  /\ mapScale = 1
  /\ mapListeners = [e \in MapEvents |-> 0]
  /\ maplibreClasses = FALSE
  /\ op = "new"
  /\ pre = [watchState |-> "OFF", map |-> "undefined", pending |-> 0,
            positionOnMap |-> FALSE, accuracyOnMap |-> FALSE,
            listening |-> FALSE]
  /\ fired = <<>>
  /\ invoked = <<>>
  /\ fitCalls = <<>>
  /\ threw = FALSE
  /\ reentered = FALSE
  /\ markerLog = [created |-> 0, destroyed |-> 0]
  /\ args = NoArgs
  /\ history = NoHistory

\* setPosition with a grid point in any of the accepted shapes; the argument
\* is recorded
MoveOnGrid ==
  \E c \in GridPositions, shape \in ValidShapes :
    Step(setPosition(Cur, LngLatLike(shape, c)), "setPosition", NoHistory,
         LngLatLike(shape, c))

NextBounds ==
  \/ CallOnAdd
  \/ CallTrigger
  \/ CallTimerFire
  \/ MoveOnGrid

SpecBounds == InitBounds /\ [][NextBounds]_vars

(***************************************************************************)
(* The delay between trigger() and its callback: the application moves the  *)
(* position and changes the accuracy, and the host changes the max bounds   *)
(* of the map, while the activation is pending.  The bookkeeping remembers  *)
(* the values the last trigger() that scheduled an activation found.        *)
(***************************************************************************)
Seen(s) ==
  [acc |-> 0, accTimer |-> 0, cancelled |-> {}, firedCancelled |-> FALSE,
   removedWaiting |-> FALSE,
   atTrigger |-> [position |-> s.position, accuracy |-> s.accuracy,
                  mapMaxBounds |-> s.mapMaxBounds]]

InitDelay ==
  /\ map = "undefined"
  /\ button = FALSE
  /\ buttonClass = ""
  /\ position \in Positions
  /\ accuracy \in Accuracies
  /\ showAccuracyCircle = TRUE
  /\ fitBoundsOptions = "maxZoom15"
  /\ eventHandlers = [e \in EventTypes |-> <<>>]
  /\ positionMarker = NoMarker
  /\ accuracyMarker = NoMarker
  /\ mapEventListenersSetup = FALSE
  /\ updateCircleHandler = FALSE
  /\ watchState = "OFF"
  /\ geolocateTimeoutId = 0
  /\ timers = <<>>
  /\ mapMaxBounds \in MaxBoundsValues
  /\ mapScale = 1
  /\ mapListeners = [e \in MapEvents |-> 0]
  /\ maplibreClasses = FALSE
  /\ op = "new"
  /\ pre = [watchState |-> "OFF", map |-> "undefined", pending |-> 0,
            positionOnMap |-> FALSE, accuracyOnMap |-> FALSE,
            listening |-> FALSE]
  /\ fired = <<>>
  /\ invoked = <<>>
  /\ fitCalls = <<>>
  /\ threw = FALSE
  /\ reentered = FALSE
  /\ markerLog = [created |-> 0, destroyed |-> 0]
  /\ args = NoArgs
  /\ history = Seen(Cur)

DelayOnAdd ==
  /\ map = "undefined"
  /\ Step(onAdd(Cur), "onAdd", history, NoArgs)

DelayTrigger ==
  /\ (map = "map" /\ watchState = "OFF") => Len(timers) < MaxPending
  /\ Step(trigger(Cur), "trigger",
          IF map = "map" /\ watchState = "OFF" THEN Seen(Cur) ELSE history,
          NoArgs)

DelayTimerFire ==
  /\ timers # <<>>
  /\ Step(geolocateTimeout([Cur EXCEPT !.timers = Tail(@)]), "timer",
          history, NoArgs)

DelaySetPosition ==
  \E c \in Positions :
    Step(setPosition(Cur, LngLatLike("lngLat", c)), "setPosition", history,
         NoArgs)

DelaySetAccuracy ==
  \E a \in Accuracies :
    Step(setAccuracy(Cur, a), "setAccuracy", history, NoArgs)

\* map.setMaxBounds(bounds), called by the application on the map
SetMaxBounds ==
  \E b \in MaxBoundsValues :
    Step([Cur EXCEPT !.mapMaxBounds = b], "setMaxBounds", history, NoArgs)

NextDelay ==
  \/ DelayOnAdd
  \/ DelayTrigger
  \/ DelayTimerFire
  \/ DelaySetPosition
  \/ DelaySetAccuracy
  \/ SetMaxBounds

SpecDelay == InitDelay /\ [][NextDelay]_vars

(***************************************************************************)
(* The activation cycle under the host's timer guarantee: a timeout that is *)
(* pending and not cleared runs once its delay has passed.  Attaching,      *)
(* detaching and trigger() are up to the application and under no such      *)
(* guarantee.                                                               *)
(***************************************************************************)
\* the host runs the callback of the timeout that is due
TimeoutElapses ==
  /\ timers # <<>>
  /\ \E r \in {geolocateTimeout([Cur EXCEPT !.timers = Tail(@)])} :
       Step(r, "timer", NoHistory, NoArgs)

NextLive ==
  \/ CallOnAdd
  \/ CallOnRemove
  \/ CallTrigger
  \/ TimeoutElapses

SpecLive == Init /\ [][NextLive]_vars /\ WF_vars(TimeoutElapses)

(***************************************************************************)
(* The viewport: the map changes its scale and fires zoom, move, rotate     *)
(* and pitch events while the control is attached, activated, resized,      *)
(* moved to another latitude and detached.                                  *)
(***************************************************************************)
\* meters per pixel of the viewports the map goes through
ViewScales == {1, 3}
ViewPositions == [lng : {1}, lat : {1, 2}]

InitView ==
  /\ InitEvents
  /\ mapMaxBounds = NoBounds

\* the viewport changes and the map fires one of its events
ViewportChange ==
  \E e \in MapEvents, m \in ViewScales :
    Step(mapEvent([Cur EXCEPT !.mapScale = m], e), "viewport", NoHistory,
         [type |-> e, listener |-> ""])

ViewSetPosition ==
  \E c \in ViewPositions :
    Step(setPosition(Cur, LngLatLike("lngLat", c)), "setPosition", NoHistory,
         NoArgs)

NextView ==
  \/ CallOnAdd
  \/ CallOnRemove
  \/ CallTrigger
  \/ CallTimerFire
  \/ CallSetAccuracy
  \/ CallSetShowAccuracyCircle
  \/ ViewSetPosition
  \/ ViewportChange

SpecView == InitView /\ [][NextView]_vars

(***************************************************************************)
(* The SSR-safe ManualGeolocateControl (ManualGeolocateControl.ssr-safe.ts) *)
(* It stores the position as it is given until the map library is loaded,   *)
(* has no watch state and no delay, and builds its payloads and its bounds  *)
(* check from the properties of the stored position.                        *)
(***************************************************************************)
\* a JavaScript value read from the stored position: a number or undefined
Undefined == [defined |-> FALSE, value |-> 0]
Defined(n) == [defined |-> TRUE, value |-> n]
\* position[key]
Property(input, key) ==
  IF Has(input, key) THEN Defined(Get(input, key)) ELSE Undefined
\* a || b: a unless a is falsy, that is undefined or 0
Or(a, b) == IF a.defined /\ a.value # 0 THEN a ELSE b
\* a < n and a > n: false when a is undefined
LessThan(a, n) == a.defined /\ a.value < n
GreaterThan(a, n) == a.defined /\ a.value > n

\* position.lat || position.latitude || position[1]
Manual_lat(s) ==
  Or(Or(Property(s.position, "lat"), Property(s.position, "latitude")),
     Property(s.position, "1"))
\* position.lng || position.longitude || position[0]
Manual_lng(s) ==
  Or(Or(Property(s.position, "lng"), Property(s.position, "longitude")),
     Property(s.position, "0"))

\* the point a marker is set to: Marker.setLngLat converts what it is given
MarkerLngLat(s) ==
  [lng |-> convert(s.position).lng, lat |-> convert(s.position).lat]

\* the first call loads the classes and converts the stored position to a
\* LngLat instance
Manual_loadMaplibreClasses(s) ==
  IF s.maplibreClasses THEN s
  ELSE [s EXCEPT !.maplibreClasses = TRUE,
                 !.position = LngLatLike("LngLat", MarkerLngLat(s))]

Manual_createMarkers(s) ==
  LET s1 == Manual_loadMaplibreClasses(s)
  IN [s1 EXCEPT !.created = @ + 2,
                !.accuracyMarker =
                   [exists |-> TRUE, onMap |-> FALSE,
                    lngLat |-> MarkerLngLat(s1), width |-> 0],
                !.positionMarker =
                   [exists |-> TRUE, onMap |-> FALSE,
                    lngLat |-> MarkerLngLat(s1), width |-> 0]]

Manual_updateAccuracyCircle(s) ==
  IF s.map = "undefined" \/ ~s.accuracyMarker.exists \/ ~s.showAccuracyCircle
  THEN s
  ELSE IF ~s.maplibreClasses \/ ~s.position.isLngLat THEN s
  ELSE [s EXCEPT !.accuracyMarker.width = circleDiameter(s)]

Manual_showMarkers(s) ==
  IF s.map = "undefined" THEN s
  ELSE LET s1 == IF s.showAccuracyCircle /\ s.accuracyMarker.exists
                 THEN [s EXCEPT !.accuracyMarker.onMap = TRUE] ELSE s
           s2 == Manual_updateAccuracyCircle(s1)
           s3 == IF s2.positionMarker.exists
                 THEN [s2 EXCEPT !.positionMarker.onMap = TRUE] ELSE s2
       IN _setupMapEventListeners(s3)

Manual_zoomToPosition(s) ==
  IF s.map = "undefined" THEN s
  ELSE [s EXCEPT !.fitCalls =
          Append(@, [center |-> MarkerLngLat(s), radius |-> s.accuracy,
                     options |-> s.fitBoundsOptions])]

Manual_createGeolocationPosition(s) ==
  [fields |-> {"coords", "timestamp"},
   latitude |-> Manual_lat(s), longitude |-> Manual_lng(s),
   accuracy |-> s.accuracy]

Manual_isOutOfMapMaxBounds(s) ==
  IF s.map = "undefined" THEN FALSE
  ELSE IF ~s.mapMaxBounds.set THEN FALSE
  ELSE \/ LessThan(Manual_lng(s), s.mapMaxBounds.west)
       \/ GreaterThan(Manual_lng(s), s.mapMaxBounds.east)
       \/ LessThan(Manual_lat(s), s.mapMaxBounds.south)
       \/ GreaterThan(Manual_lat(s), s.mapMaxBounds.north)

\* _fire(type, data) with no handler registered: the call is recorded
Manual_fire(s, type, data) ==
  [s EXCEPT !.fired =
     Append(@, [type |-> type, fields |-> data.fields,
                latitude |-> data.latitude, longitude |-> data.longitude,
                accuracy |-> data.accuracy])]

Manual_trigger(s) ==
  LET s1 == Manual_loadMaplibreClasses(s)
      s2 == IF ~s1.positionMarker.exists \/ ~s1.accuracyMarker.exists
            THEN Manual_createMarkers(s1) ELSE s1
  IN IF Manual_isOutOfMapMaxBounds(s2)
     THEN Manual_fire(s2, "outofmaxbounds",
                      Manual_createGeolocationPosition(s2))
     ELSE LET s3 == Manual_zoomToPosition(Manual_showMarkers(s2))
          IN Manual_fire(s3, "geolocate",
                         Manual_createGeolocationPosition(s3))

Manual_onAdd(s) ==
  Manual_createMarkers([s EXCEPT !.map = "map", !.button = TRUE])

Manual_onRemove(s) ==
  LET s1 == _removeMapEventListeners(s)
  IN [s1 EXCEPT !.button = FALSE,
                !.destroyed = @ + (IF s1.positionMarker.exists THEN 1 ELSE 0)
                                + (IF s1.accuracyMarker.exists THEN 1 ELSE 0),
                !.positionMarker = NoMarker, !.accuracyMarker = NoMarker,
                !.map = "undefined"]

Manual_setPosition(s, coordinates) ==
  LET s1 == [s EXCEPT !.position =
               IF s.maplibreClasses
               THEN LngLatLike("LngLat",
                               [lng |-> convert(coordinates).lng,
                                lat |-> convert(coordinates).lat])
               ELSE coordinates]
      s2 == IF s1.positionMarker.exists
            THEN [s1 EXCEPT !.positionMarker.lngLat = MarkerLngLat(s1)]
            ELSE s1
      s3 == IF s2.accuracyMarker.exists
            THEN [s2 EXCEPT !.accuracyMarker.lngLat = MarkerLngLat(s2)]
            ELSE s2
  IN Manual_updateAccuracyCircle(s3)

\* coordinates 0 to 3 on both axes, in every accepted shape; the max bounds
\* [[1,1],[2,2]] leave the points with a coordinate 0 or 3 outside
ManualCoordinates == {0, 1, 2, 3}
ManualInputs ==
  {LngLatLike(shape, p) :
     shape \in ValidShapes,
     p \in [lng : ManualCoordinates, lat : ManualCoordinates]}
ManualBox == [set |-> TRUE, west |-> 1, south |-> 1, east |-> 2, north |-> 2]

InitManual ==
  /\ map = "undefined"
  /\ button = FALSE
  /\ buttonClass = ""
  /\ position \in ManualInputs
  /\ accuracy = DefaultAccuracy
  /\ showAccuracyCircle = TRUE
  /\ fitBoundsOptions = "maxZoom15"
  /\ eventHandlers = [e \in EventTypes |-> <<>>]
  /\ positionMarker = NoMarker
  /\ accuracyMarker = NoMarker
  /\ mapEventListenersSetup = FALSE
  /\ updateCircleHandler = FALSE
  /\ watchState = "OFF"
  /\ geolocateTimeoutId = 0
  /\ timers = <<>>
  /\ mapMaxBounds \in {NoBounds, ManualBox}
  /\ mapScale = 1
  /\ mapListeners = [e \in MapEvents |-> 0]
  /\ maplibreClasses = FALSE
  /\ op = "new"
  /\ pre = [watchState |-> "OFF", map |-> "undefined", pending |-> 0,
            positionOnMap |-> FALSE, accuracyOnMap |-> FALSE,
            listening |-> FALSE]
  /\ fired = <<>>
  /\ invoked = <<>>
  /\ fitCalls = <<>>
  /\ threw = FALSE
  /\ reentered = FALSE
  /\ markerLog = [created |-> 0, destroyed |-> 0]
  /\ args = NoArgs
  /\ history = NoHistory

ManualOnAdd ==
  /\ map = "undefined"
  /\ Step(Manual_onAdd(Cur), "onAdd", NoHistory, NoArgs)

ManualOnRemove ==
  /\ map = "map"
  /\ Step(Manual_onRemove(Cur), "onRemove", NoHistory, NoArgs)

ManualTrigger == Step(Manual_trigger(Cur), "trigger", NoHistory, NoArgs)

ManualSetPosition ==
  \E c \in ManualInputs :
    Step(Manual_setPosition(Cur, c), "setPosition", NoHistory, NoArgs)

NextManual ==
  \/ ManualOnAdd
  \/ ManualOnRemove
  \/ ManualTrigger
  \/ ManualSetPosition

SpecManual == InitManual /\ [][NextManual]_vars

TypeOK ==
  /\ map \in {"undefined", "map"}
  /\ watchState \in WatchStates
  /\ geolocateTimeoutId \in TimerIds \cup {0, StaleId}
  /\ timers = [i \in 1 .. Len(timers) |-> i]
  /\ Len(timers) <= MaxPending
  /\ position \in Positions
  /\ accuracy \in Accuracies
  /\ history.cancelled \subseteq Range(timers)

(***************************************************************************)
(* Claims                                                                   *)
(***************************************************************************)
Attached == map = "map"
OutOfBounds == _isOutOfMapMaxBounds(Cur)
NoMarkerOnMap == ~positionMarker.onMap /\ ~accuracyMarker.onMap
NoViewportListener == \A e \in MapEvents : mapListeners[e] = 0
\* the last operation was the delayed callback and it found the control
\* WAITING_ACTIVE
CallbackRanWhileWaiting == op = "timer" /\ pre.watchState = "WAITING_ACTIVE"

C3_OutOfBounds ==
  (CallbackRanWhileWaiting /\ OutOfBounds) =>
    /\ Len(fired) = 1
    /\ fired[1].type = "outofmaxbounds"
    /\ fired[1].latitude = position.lat
    /\ fired[1].longitude = position.lng
    /\ fired[1].accuracy = accuracy
    /\ fired[1].seenWatchState = "OFF"
    /\ ~fired[1].seenPositionOnMap
    /\ ~fired[1].seenAccuracyOnMap
    /\ fitCalls = <<>>
    /\ NoMarkerOnMap
    /\ ~reentered => watchState = "OFF"

C3_Witness ==
  /\ CallbackRanWhileWaiting /\ OutOfBounds
  /\ watchState = "OFF"
  /\ accuracy = 200
  /\ Len(invoked) = 1

\* C4: a trigger() made while WAITING_ACTIVE returns the control to OFF and
\* cancels the pending activation: none stays pending, and the callback of an
\* activation so cancelled never fires an event, attaches a marker, fits the
\* camera or changes the state.
C4_CancelWhileWaiting ==
  /\ (op = "trigger" /\ pre.watchState = "WAITING_ACTIVE" /\ pre.map = "map")
       => (watchState = "OFF" /\ timers = <<>> /\ fired = <<>>)
  /\ (op = "timer" /\ history.firedCancelled)
       => /\ fired = <<>>
          /\ fitCalls = <<>>
          /\ watchState = pre.watchState
          /\ positionMarker.onMap = pre.positionOnMap
          /\ accuracyMarker.onMap = pre.accuracyOnMap

\* C5: after an onRemove() made while WAITING_ACTIVE, no delayed callback
\* changes the watch-state, attaches a marker, calls fitBounds or fires an
\* event.
C5_DetachCancels ==
  (op = "timer" /\ history.removedWaiting) =>
    /\ watchState = pre.watchState
    /\ fired = <<>>
    /\ fitCalls = <<>>
    /\ NoMarkerOnMap

\* C6: at most one delayed activation is pending in every reachable state.
C6_AtMostOnePending == Len(timers) <= 1

C8_DetachCleansUp == op = "onRemove" => (NoViewportListener /\ NoMarkerOnMap)

C8_Witness ==
  /\ op = "onRemove" /\ pre.watchState = "ACTIVE_LOCK"
  /\ pre.positionOnMap /\ pre.accuracyOnMap /\ pre.listening

\* C9: onRemove() on a control that is not attached (never attached, or
\* already removed) does not throw and leaves no marker attached, no
\* viewport listener registered and no delayed activation pending.
C9_IdempotentDetach ==
  (op = "onRemove" /\ pre.map = "undefined") =>
    /\ ~threw
    /\ NoMarkerOnMap
    /\ NoViewportListener
    /\ timers = <<>>

\* C10: a handler that throws stops neither the handlers registered after
\* it nor the operation that fired the event: every firing invokes every
\* registered handler, and no operation ends by an exception.
C10_HandlersIsolated ==
  /\ ~threw
  /\ \A i \in DOMAIN fired :
       Cardinality({j \in DOMAIN invoked : invoked[j].type = fired[i].type})
         = Len(eventHandlers[fired[i].type])

\* C11: a firing invokes every handler registered for the fired event, once
\* per registration and in registration order, and no handler registered for
\* the other event; an operation that fires nothing invokes no handler.
C11_DispatchInOrder ==
  /\ fired = <<>> => invoked = <<>>
  /\ fired # <<>> =>
       /\ Len(invoked) = Len(eventHandlers[fired[1].type])
       /\ \A j \in DOMAIN invoked :
            /\ invoked[j].type = fired[1].type
            /\ invoked[j].index = j
            /\ invoked[j].handler = eventHandlers[fired[1].type][j]

\* C12: off(name, handler) removes the first registration of that handler
\* for that event name and nothing else, the other registrations keeping
\* their order; when the handler is not registered for that name the table
\* stays as it is; off never throws.  Every handler a firing invokes is a
\* registration of the table at that moment, so a registration that was
\* removed is not invoked again.
C12_OffRemovesFirst ==
  [][/\ op' = "off" =>
          LET before == eventHandlers[args'.type]
              after == eventHandlers'[args'.type]
              first == {i \in DOMAIN before :
                          /\ before[i] = args'.listener
                          /\ \A k \in 1 .. (i - 1) : before[k] # args'.listener}
          IN /\ ~threw'
             /\ \A x \in EventTypes \ {args'.type} :
                  eventHandlers'[x] = eventHandlers[x]
             /\ first = {} => after = before
             /\ \A i \in first :
                  /\ Len(after) = Len(before) - 1
                  /\ \A k \in DOMAIN after :
                       after[k] = IF k < i THEN before[k] ELSE before[k + 1]
     /\ \A j \in DOMAIN invoked' :
          /\ invoked'[j].index \in DOMAIN eventHandlers[invoked'[j].type]
          /\ invoked'[j].handler
               = eventHandlers[invoked'[j].type][invoked'[j].index]]_vars

\* off("geolocate", ok) took one of two registrations of ok away
C12_Witness ==
  /\ op = "off" /\ args = [type |-> "geolocate", listener |-> "ok"]
  /\ eventHandlers["geolocate"] = <<"trigger", "ok">>

\* C13: every handler that runs before any handler of the same firing has
\* called back into the control gets a payload whose latitude, longitude and
\* accuracy are what getPosition() and getAccuracy() return inside it; in a
\* geolocate fired by the delayed callback it reads ACTIVE_LOCK, the position
\* marker is attached and fitBounds has been called; in an outofmaxbounds
\* fired by the delayed callback it reads OFF.
C13_HandlersSeeUpdatedState ==
  \A j \in DOMAIN invoked :
    ~invoked[j].afterReentry =>
      /\ invoked[j].latitude = invoked[j].readPosition.lat
      /\ invoked[j].longitude = invoked[j].readPosition.lng
      /\ invoked[j].accuracy = invoked[j].readAccuracy
      /\ (op = "timer" /\ invoked[j].type = "geolocate") =>
           /\ invoked[j].readWatchState = "ACTIVE_LOCK"
           /\ invoked[j].readPositionOnMap
           /\ invoked[j].readFitCalls = 1
      /\ (op = "timer" /\ invoked[j].type = "outofmaxbounds") =>
           invoked[j].readWatchState = "OFF"

\* the coordinate c is one LngLat.convert accepts
Normalizable(c) == c.shape \in ValidShapes /\ c.lat >= -90 /\ c.lat <= 90
\* the position c lies outside the max bounds of the map the control is on
OutsideMaxBounds(c) ==
  /\ map = "map" /\ mapMaxBounds.set
  /\ \/ c.lng < mapMaxBounds.west \/ c.lng > mapMaxBounds.east
     \/ c.lat < mapMaxBounds.south \/ c.lat > mapMaxBounds.north

\* C14: setPosition(c) with a valid coordinate fires exactly one event when
\* the control is ACTIVE_LOCK, outofmaxbounds if c lies outside the max
\* bounds and geolocate otherwise, the payload carrying c; in OFF and in
\* WAITING_ACTIVE it fires no event.
C14_SetPositionFires ==
  [][\A c \in CoordinateInputs :
       (/\ op' = "setPosition"
        /\ Normalizable(c)
        /\ Step(setPosition(Cur, c), "setPosition", NoHistory, NoArgs)) =>
         /\ watchState = "ACTIVE_LOCK" =>
              /\ Len(fired') = 1
              /\ fired'[1].type = IF OutsideMaxBounds(c) THEN "outofmaxbounds"
                                  ELSE "geolocate"
              /\ fired'[1].longitude = c.lng
              /\ fired'[1].latitude = c.lat
         /\ watchState # "ACTIVE_LOCK" => fired' = <<>>]_vars

C14_Witness ==
  /\ op = "setPosition" /\ pre.watchState = "ACTIVE_LOCK" /\ pre.map = "map"
  /\ Len(fired) = 1 /\ fired[1].type = "outofmaxbounds"
  /\ Len(invoked) = 1

C16_InvalidCoordinate ==
  [][\A c \in CoordinateInputs :
       (/\ op' = "setPosition"
        /\ ~Normalizable(c)
        /\ Step(setPosition(Cur, c), "setPosition", NoHistory, NoArgs)) =>
         /\ threw'
         /\ fired' = <<>> /\ invoked' = <<>>
         /\ position' = position
         /\ positionMarker' = positionMarker
         /\ accuracyMarker' = accuracyMarker
         /\ accuracy' = accuracy
         /\ watchState' = watchState
         /\ eventHandlers' = eventHandlers]_vars

C16_Witness ==
  /\ op = "setPosition" /\ threw /\ fired = <<>>
  /\ pre.watchState = "ACTIVE_LOCK" /\ positionMarker.onMap
  /\ eventHandlers["geolocate"] # <<>>

\* C17: setShowAccuracyCircle(b) fires no event, runs no handler, leaves the
\* watch-state as it is and neither attaches nor detaches the position
\* marker, whatever the state of the control.
C17_ToggleCircleOnly ==
  [][\A b \in BOOLEAN :
       (/\ op' = "setShowAccuracyCircle"
        /\ Step(setShowAccuracyCircle(Cur, b), "setShowAccuracyCircle",
                NoHistory, NoArgs)) =>
         /\ fired' = <<>> /\ invoked' = <<>>
         /\ watchState' = watchState
         /\ positionMarker' = positionMarker]_vars

C17_Witness ==
  /\ op = "setShowAccuracyCircle" /\ pre.watchState = "ACTIVE_LOCK"
  /\ pre.accuracyOnMap /\ ~accuracyMarker.onMap
  /\ positionMarker.onMap

\* C18: setFitBoundsOptions(o) stores o and does nothing else (no fitBounds
\* call, no event, no change of the watch-state, the markers, the position or
\* the accuracy); no other operation changes the stored options, and every
\* fitBounds call of the delayed callback passes the options stored then.
C18_FitOptionsDeferred ==
  [][/\ \A o \in FitOptions :
          (/\ op' = "setFitBoundsOptions"
           /\ Step(setFitBoundsOptions(Cur, o), "setFitBoundsOptions",
                   NoHistory, NoArgs)) =>
            /\ fitBoundsOptions' = o
            /\ fitCalls' = <<>> /\ fired' = <<>> /\ invoked' = <<>>
            /\ watchState' = watchState
            /\ positionMarker' = positionMarker
            /\ accuracyMarker' = accuracyMarker
            /\ position' = position /\ accuracy' = accuracy
            /\ showAccuracyCircle' = showAccuracyCircle
            /\ timers' = timers
     /\ fitBoundsOptions' # fitBoundsOptions => op' = "setFitBoundsOptions"
     /\ (op' = "timer" /\ CallTimerFire) =>
          \A i \in DOMAIN fitCalls' :
            fitCalls'[i].options = fitBoundsOptions]_vars

C18_Witness ==
  /\ op = "setFitBoundsOptions" /\ fitBoundsOptions = "custom"
  /\ pre.watchState = "WAITING_ACTIVE" /\ pre.map = "map"
  /\ timers # <<>>

\* C19: every payload handed to the handlers has the coords and a timestamp.
C19_PayloadHasTimestamp ==
  \A i \in DOMAIN fired : {"coords", "timestamp"} \subseteq fired[i].fields

\* C20: new MockGeolocateControl(options) throws when options.position is
\* missing; with a position LngLat.convert accepts it does not throw, the
\* watch-state is OFF, the position is the one given, every supplied option
\* is kept and the unsupplied ones are accuracy 50, showAccuracyCircle true
\* and fit options {maxZoom: 15}.
C20_Construction ==
  op = "new" =>
    /\ args.position.shape = "undefined" => threw
    /\ Normalizable(args.position) =>
         /\ ~threw
         /\ watchState = "OFF"
         /\ position = [lng |-> args.position.lng, lat |-> args.position.lat]
         /\ accuracy = IF args.accuracy.given THEN args.accuracy.value ELSE 50
         /\ showAccuracyCircle = IF args.showAccuracyCircle.given
                                 THEN args.showAccuracyCircle.value ELSE TRUE
         /\ fitBoundsOptions = IF args.fitBoundsOptions.given
                               THEN args.fitBoundsOptions.value
                               ELSE "maxZoom15"

C20_Witness ==
  /\ op = "new" /\ ~threw
  /\ args.position.shape = "array2"
  /\ ~args.accuracy.given /\ accuracy = 50
  /\ ~args.showAccuracyCircle.given /\ showAccuracyCircle
  /\ ~args.fitBoundsOptions.given /\ fitBoundsOptions = "maxZoom15"

\* the position lies within the max bounds of the map, edges included, or
\* the map has no max bounds
WithinMaxBounds ==
  \/ ~mapMaxBounds.set
  \/ /\ mapMaxBounds.west <= position.lng /\ position.lng <= mapMaxBounds.east
     /\ mapMaxBounds.south <= position.lat /\ position.lat <= mapMaxBounds.north

\* C21: the bounds check counts the position as within bounds exactly when
\* west <= lng <= east and south <= lat <= north (a position on an edge is
\* within), and always when the map has no max bounds: the delayed callback
\* of an attached control, and setPosition on an active one, fire geolocate
\* in that case and outofmaxbounds when the position lies beyond any edge.
C21_BoundsCheck ==
  (/\ pre.map = "map"
   /\ \/ CallbackRanWhileWaiting
      \/ op = "setPosition" /\ pre.watchState = "ACTIVE_LOCK") =>
    /\ OutOfBounds = ~WithinMaxBounds
    /\ Len(fired) = 1
    /\ fired[1].type = IF WithinMaxBounds THEN "geolocate"
                       ELSE "outofmaxbounds"

\* the position sits on the north-east corner of the max bounds and the
\* activation went through
C21_Witness ==
  /\ CallbackRanWhileWaiting
  /\ mapMaxBounds.set
  /\ position.lng = mapMaxBounds.east /\ position.lat = mapMaxBounds.north
  /\ fired # <<>> /\ fired[1].type = "geolocate"
  /\ watchState = "ACTIVE_LOCK"

\* C22: setPosition with a value of any accepted shape (array of two or
\* three numbers, object with lng and lat, object with lon and lat, LngLat
\* instance) followed by getPosition returns the point the value denotes,
\* hence the same normalized coordinate whatever the shape.
C22_ShapeRoundTrip ==
  (op = "setPosition" /\ args.shape \in ValidShapes) =>
    /\ ~threw
    /\ getPosition(Cur) = [lng |-> args.lng, lat |-> args.lat]

\* a point with different longitude and latitude was passed as an object
\* with lon and lat
C22_Witness ==
  /\ op = "setPosition" /\ args.shape = "lonLat"
  /\ args.lng = 3 /\ args.lat = 2
  /\ getPosition(Cur) = [lng |-> 3, lat |-> 2]

\* C23: every trigger() on an attached control whose position is within the
\* max bounds leads to a camera fit and a geolocate event, the n-th like the
\* first: after it the control is WAITING_ACTIVE with the delayed callback
\* pending, whatever state it was in before.
C23_EveryTriggerLocates ==
  (op = "trigger" /\ pre.map = "map" /\ ~OutOfBounds) =>
    /\ watchState = "WAITING_ACTIVE"
    /\ timers # <<>>
    /\ geolocateTimeoutId \in Range(timers)

\* C24: whenever the watch-state is WAITING_ACTIVE a delayed activation is
\* pending, in every reachable state, also after onRemove and a later onAdd.
C24_WaitingHasTimer ==
  watchState = "WAITING_ACTIVE" => timers # <<>>

\* C25: whenever the watch-state is ACTIVE_LOCK the position marker is on
\* the map, and if showAccuracyCircle is true the accuracy circle is on
\* the map and the viewport listeners are registered, in every reachable
\* state, also after onRemove and a later onAdd.
C25_ActiveHasMarkers ==
  watchState = "ACTIVE_LOCK" =>
    /\ positionMarker.onMap
    /\ showAccuracyCircle =>
         /\ accuracyMarker.onMap
         /\ \A e \in MapEvents : mapListeners[e] > 0

\* C26: whenever the watch-state is OFF or WAITING_ACTIVE neither marker is
\* on the map and no viewport listener of the control is registered.
C26_InactiveHasNoMarkers ==
  watchState \in {"OFF", "WAITING_ACTIVE"} =>
    /\ NoMarkerOnMap
    /\ NoViewportListener
    /\ ~mapEventListenersSetup

\* a handler of the geolocate event called trigger(): the markers the
\* activation had just put on the map are off it again and the control is
\* OFF
C26_Witness ==
  /\ op = "timer" /\ pre.watchState = "WAITING_ACTIVE" /\ pre.map = "map"
  /\ reentered /\ fired[1].type = "geolocate"
  /\ watchState = "OFF"
  /\ positionMarker.exists /\ accuracyMarker.exists

\* C27: when the delayed callback runs while the watch-state is not
\* WAITING_ACTIVE it does nothing: the watch-state, the position and
\* accuracy, both markers, the viewport listeners and the button are as
\* before, the camera is not fitted, no event fires and no handler runs.
C27_StaleCallback ==
  [][(op' = "timer" /\ watchState # "WAITING_ACTIVE") =>
       /\ watchState' = watchState
       /\ position' = position /\ accuracy' = accuracy
       /\ positionMarker' = positionMarker
       /\ accuracyMarker' = accuracyMarker
       /\ mapListeners' = mapListeners
       /\ mapEventListenersSetup' = mapEventListenersSetup
       /\ buttonClass' = buttonClass
       /\ eventHandlers' = eventHandlers
       /\ (geolocateTimeoutId' = 0) = (geolocateTimeoutId = 0)
       /\ fitCalls' = <<>> /\ fired' = <<>> /\ invoked' = <<>>
       /\ ~threw']_vars

\* the callback ran on an attached control that was ACTIVE_LOCK with a
\* handler registered
C27_Witness ==
  /\ op = "timer" /\ pre.watchState = "ACTIVE_LOCK" /\ pre.map = "map"
  /\ positionMarker.onMap
  /\ eventHandlers["geolocate"] # <<>>
  /\ fired = <<>>

\* C28: an activation is decided by the position, the accuracy and the max
\* bounds current when the delay elapses: setPosition and setAccuracy made
\* while WAITING_ACTIVE fire no event and leave the activation pending, and
\* the callback fires geolocate or outofmaxbounds according to the current
\* position and max bounds, with the current position and accuracy as
\* payload and, for geolocate, as the camera fit.
C28_DecidedAtElapse ==
  /\ (op \in {"setPosition", "setAccuracy"}
        /\ pre.watchState = "WAITING_ACTIVE") =>
       /\ fired = <<>> /\ invoked = <<>> /\ fitCalls = <<>>
       /\ watchState = "WAITING_ACTIVE"
       /\ pre.pending = Len(timers)
  /\ (CallbackRanWhileWaiting /\ pre.map = "map") =>
       /\ Len(fired) = 1
       /\ fired[1].type = IF WithinMaxBounds THEN "geolocate"
                          ELSE "outofmaxbounds"
       /\ fired[1].longitude = position.lng
       /\ fired[1].latitude = position.lat
       /\ fired[1].accuracy = accuracy
       /\ WithinMaxBounds =>
            /\ Len(fitCalls) = 1
            /\ fitCalls[1].center = position
            /\ fitCalls[1].radius = accuracy
            /\ positionMarker.lngLat = position
       /\ ~WithinMaxBounds => fitCalls = <<>>

\* position, accuracy and max bounds all changed after trigger(): at
\* trigger() the map had no max bounds, when the delay elapsed the position
\* lay outside the bounds set meanwhile
C28_Witness ==
  /\ CallbackRanWhileWaiting /\ pre.map = "map"
  /\ ~history.atTrigger.mapMaxBounds.set /\ mapMaxBounds.set
  /\ history.atTrigger.position # position
  /\ history.atTrigger.accuracy # accuracy
  /\ fired # <<>> /\ fired[1].type = "outofmaxbounds"
  /\ fired[1].accuracy = accuracy

\* C29: WAITING_ACTIVE is transient: from every state in which the control
\* is WAITING_ACTIVE it leaves that state, for ACTIVE_LOCK or OFF, once the
\* host has run the pending timeouts.
C29_WaitingIsTransient ==
  (watchState = "WAITING_ACTIVE") ~> (watchState # "WAITING_ACTIVE")

\* C30: while ACTIVE_LOCK, setShowAccuracyCircle(false) takes the accuracy
\* circle off the map and removes the viewport listeners, and
\* setShowAccuracyCircle(true) puts it on the map, sized for the current
\* accuracy and viewport, and registers the listeners; while OFF or
\* WAITING_ACTIVE the call records the flag and attaches nothing.
C30_CircleToggle ==
  op = "setShowAccuracyCircle" =>
    /\ (pre.watchState = "ACTIVE_LOCK" /\ ~showAccuracyCircle) =>
         /\ ~accuracyMarker.onMap
         /\ NoViewportListener
    /\ (pre.watchState = "ACTIVE_LOCK" /\ showAccuracyCircle) =>
         /\ accuracyMarker.onMap
         /\ accuracyMarker.width = circleDiameter(Cur)
         /\ \A e \in MapEvents : mapListeners[e] = 1
    /\ pre.watchState # "ACTIVE_LOCK" =>
         /\ NoMarkerOnMap
         /\ NoViewportListener

\* C31: whenever the accuracy circle is on the map its pixel diameter is
\* 2 * accuracy / metersPerPixel (to two decimals) for the current viewport,
\* accuracy and position: it follows every zoom, move, rotate and pitch
\* event and every setAccuracy and setPosition.
C31_CircleSize ==
  accuracyMarker.onMap =>
    /\ accuracyMarker.width = circleDiameter(Cur)
    /\ accuracyMarker.width =
         (400 * accuracy + mapScale * (1 + position.lat))
           \div (2 * mapScale * (1 + position.lat))

\* a pitch event at another scale reached an active control whose accuracy
\* and latitude had been changed
C31_Witness ==
  /\ op = "viewport" /\ args.type = "pitch"
  /\ accuracyMarker.onMap
  /\ mapScale = 3 /\ accuracy = 200 /\ position.lat = 2
  /\ accuracyMarker.width = 4444

\* C32: whenever the markers exist, the position marker and the accuracy
\* circle are both located at the control's current position, in every
\* watch-state, also after setPosition while OFF or WAITING_ACTIVE.
C32_MarkersAtPosition ==
  /\ positionMarker.exists => positionMarker.lngLat = position
  /\ accuracyMarker.exists => accuracyMarker.lngLat = position
  /\ map = "map" => positionMarker.exists /\ accuracyMarker.exists

\* setPosition moved a waiting control to another latitude
C32_Witness ==
  /\ op = "setPosition" /\ pre.watchState = "WAITING_ACTIVE"
  /\ position.lat = 2
  /\ positionMarker.exists /\ positionMarker.lngLat.lat = 2
  /\ accuracyMarker.exists /\ accuracyMarker.lngLat.lat = 2
  /\ ~positionMarker.onMap

\* C33: markers are made once per attachment, in onAdd, and destroyed once,
\* in onRemove: onAdd makes the two markers, onRemove destroys the two that
\* exist, and trigger(), the delayed callback and the setters neither make
\* nor destroy a marker, so all activations of one attachment use the same
\* two markers.
C33_MarkerLifecycle ==
  /\ op = "onAdd" =>
       /\ markerLog = [created |-> 2, destroyed |-> 0]
       /\ positionMarker.exists /\ accuracyMarker.exists
  /\ op = "onRemove" =>
       /\ markerLog.created = 0
       /\ markerLog.destroyed = IF pre.map = "map" THEN 2 ELSE 0
       /\ ~positionMarker.exists /\ ~accuracyMarker.exists
  /\ op \notin {"onAdd", "onRemove"} =>
       markerLog = [created |-> 0, destroyed |-> 0]
  /\ (map = "map") = positionMarker.exists
  /\ (map = "map") = accuracyMarker.exists

\* a second activation within one attachment: trigger() left ACTIVE_LOCK,
\* the markers are kept off the map
C33_Witness ==
  /\ op = "trigger" /\ pre.watchState = "ACTIVE_LOCK" /\ pre.positionOnMap
  /\ watchState = "OFF"
  /\ positionMarker.exists /\ accuracyMarker.exists
  /\ markerLog.created = 0 /\ markerLog.destroyed = 0

\* C34: no geolocate event is fired while the position of the control lies
\* outside the max bounds of the map it is on: every geolocate event of the
\* last operation carries a position within the current max bounds.
C34_NoGeolocateOutOfBounds ==
  \A i \in DOMAIN fired :
    fired[i].type = "geolocate" =>
      ~OutsideMaxBounds([lng |-> fired[i].longitude,
                         lat |-> fired[i].latitude])

\* C35: a control that is not on a map fires no event: whatever state it
\* was detached in, setPosition, setAccuracy, setShowAccuracyCircle and
\* trigger() made before the next onAdd fire neither geolocate nor
\* outofmaxbounds.
C35_DetachedIsSilent ==
  (/\ pre.map = "undefined"
   /\ op \in {"setPosition", "setAccuracy", "setShowAccuracyCircle",
              "trigger"}) =>
    fired = <<>> /\ invoked = <<>>

\* C36: the accuracy circle is never on the map while the position marker
\* is not, across onAdd, onRemove, trigger(), the delayed callback and the
\* setters, a detach followed by a re-attach included.
C36_CircleNeedsPositionMarker ==
  accuracyMarker.onMap => positionMarker.onMap

\* C37: setPosition, setAccuracy, setShowAccuracyCircle and
\* setFitBoundsOptions leave the watch-state as it is, schedule and cancel
\* no delayed activation and never call fitBounds (a handler that calls
\* trigger() during the call acts on its own account); setPosition moving
\* an ACTIVE_LOCK control out of the max bounds leaves it ACTIVE_LOCK with
\* its markers on the map as before.
C37_SettersKeepState ==
  (/\ op \in {"setPosition", "setAccuracy", "setShowAccuracyCircle",
              "setFitBoundsOptions"}
   /\ ~reentered) =>
    /\ watchState = pre.watchState
    /\ Len(timers) = pre.pending
    /\ fitCalls = <<>>
    /\ positionMarker.onMap = pre.positionOnMap
    /\ op \in {"setPosition", "setAccuracy", "setFitBoundsOptions"} =>
         /\ accuracyMarker.onMap = pre.accuracyOnMap
         /\ (\E e \in MapEvents : mapListeners[e] > 0) = pre.listening

\* setPosition moved an active control out of the max bounds
C37_Witness ==
  /\ op = "setPosition" /\ ~reentered /\ ~threw
  /\ pre.watchState = "ACTIVE_LOCK" /\ pre.map = "map"
  /\ pre.positionOnMap /\ pre.accuracyOnMap
  /\ OutOfBounds
  /\ fired # <<>> /\ fired[1].type = "outofmaxbounds"
  /\ watchState = "ACTIVE_LOCK"
  /\ positionMarker.onMap /\ accuracyMarker.onMap

\* C38: the control's listeners for zoom, move, rotate and pitch are
\* registered on the map exactly when the accuracy circle is on the map,
\* and each of them at most once, whatever activations and
\* setShowAccuracyCircle calls were made.
C38_ListenersFollowCircle ==
  /\ \A e \in MapEvents : mapListeners[e] <= 1
  /\ \A e \in MapEvents : (mapListeners[e] = 1) = accuracyMarker.onMap
  /\ mapEventListenersSetup = accuracyMarker.onMap

\* setShowAccuracyCircle(true) on an active control whose circle was hidden
C38_Witness ==
  /\ op = "call" /\ pre.watchState = "ACTIVE_LOCK" /\ pre.map = "map"
  /\ pre.positionOnMap /\ ~pre.accuracyOnMap /\ ~pre.listening
  /\ accuracyMarker.onMap
  /\ \A e \in MapEvents : mapListeners[e] = 1
  /\ fired = <<>>

\* C39: trigger() on a control that is on no map, before onAdd or after
\* onRemove, changes nothing: the watch-state, the pending timeouts and the
\* held timeout identifier, the button, the markers and the listeners are
\* as before, and no event fires and no camera fit is made.
C39_TriggerDetached ==
  [][(op' = "trigger" /\ map = "undefined") =>
       /\ watchState' = watchState
       /\ timers' = timers
       /\ geolocateTimeoutId' = geolocateTimeoutId
       /\ map' = map /\ button' = button /\ buttonClass' = buttonClass
       /\ positionMarker' = positionMarker
       /\ accuracyMarker' = accuracyMarker
       /\ mapListeners' = mapListeners
       /\ position' = position /\ accuracy' = accuracy
       /\ fired' = <<>> /\ invoked' = <<>> /\ fitCalls' = <<>>]_vars

\* trigger() was called on a control detached while it was active
C39_Witness ==
  /\ op = "trigger" /\ pre.map = "undefined"
  /\ pre.watchState = "ACTIVE_LOCK" /\ watchState = "ACTIVE_LOCK"
  /\ eventHandlers["geolocate"] # <<>>
  /\ fired = <<>> /\ timers = <<>>

\* C40: in the SSR-safe ManualGeolocateControl every payload trigger()
\* fires carries the latitude and longitude of the stored position, and the
\* max-bounds check is made on them: outofmaxbounds fires exactly when the
\* stored position lies outside the max bounds, for every position, those
\* with a latitude or longitude of 0 included.
C40_ManualPayload ==
  op = "trigger" =>
    /\ Len(fired) = 1
    /\ fired[1].latitude = Defined(position.lat)
    /\ fired[1].longitude = Defined(position.lng)
    /\ (fired[1].type = "outofmaxbounds") = OutsideMaxBounds(position)

====
